---- MODULE Spec2Model ----
(***************************************************************************)
(* Typedex: compile-time validation of IndexedDB migrations.               *)
(*                                                                         *)
(* The type-level computations of greater-than.types.ts and                *)
(* migration-builder.types.ts are modelled as operators that compute what  *)
(* the TypeScript conditional types compute; the builders of               *)
(* migration-builder.ts are modelled as state machines whose actions are   *)
(* the builder methods.  A call that does not type-check is a call the     *)
(* compiler rejects: it is recorded in the state but appends nothing.      *)
(***************************************************************************)
EXTENDS Integers, Sequences, FiniteSets, TLC

VARIABLES
    migrations,    \* MigrationBuilder.migrations of the current builder
    mbS,           \* MigrationBuilder type parameter S: the schema so far
    mbPrevVersion, \* MigrationBuilder type parameter PrevVersion
    mbCall,        \* the last version() call and what the compiler made of it
    builders,      \* the MigrationBuilder objects constructed so far (SpecMB)
    vb,            \* a VersionBuilder expression: its static type and its actions
    vbCall,        \* the last VersionBuilder method call and its return type
    cmpA,          \* comparison: type argument A
    cmpB,          \* comparison: type argument B
    cmpOp,         \* comparison: the utility type evaluated last
    cmpRes         \* comparison: the type it evaluated to (TRUE / FALSE)

mbVars == <<migrations, mbS, mbPrevVersion, mbCall, builders>>

vbVars == <<vb, vbCall>>

cmpVars == <<cmpA, cmpB, cmpOp, cmpRes>>

vars == <<migrations, mbS, mbPrevVersion, mbCall, builders, vb, vbCall,
          cmpA, cmpB, cmpOp, cmpRes>>

(***************************************************************************)
(* Bounds.                                                                 *)
(***************************************************************************)
\* integer literals -MaxInt..MaxInt are all part of the comparison inputs
MaxInt == 12

\* integer literals -1..MaxVersion are all tried as version numbers
MaxVersion == 3

\* the longest chain of version() calls
MaxMigrations == 2

\* the most actions one VersionBuilder records
MaxActions == 2

(***************************************************************************)
(* Number types.  A type argument `N extends number` is one of             *)
(*   lit n    the numeric literal type n (an integer),                     *)
(*   exp k    the numeric literal type 10^k, k >= 21, which TypeScript     *)
(*            prints in exponent form (1e+21),                             *)
(*   neginf   the literal type -1e999 (prints -Infinity),                  *)
(*   number   the broad type number, which is also `typeof Infinity`,      *)
(*   undefined (only as PrevVersion of a fresh MigrationBuilder).          *)
(***************************************************************************)
Lit(n) == [kind |-> "lit", val |-> n]

Exp10(k) == [kind |-> "exp", val |-> k]

NegInfLit == [kind |-> "neginf", val |-> 0]

BroadNumber == [kind |-> "number", val |-> 0]

Undefined == [kind |-> "undefined", val |-> 0]

\* typeof Infinity: the global Infinity is declared `var Infinity: number`
TypeofInfinity == BroadNumber

\* typeof NegativeInfinity: the declared const is a `unique symbol`
TypeofNegativeInfinity == [kind |-> "unique symbol", val |-> 0]

(***************************************************************************)
(* Strings are sequences of one-character strings.                         *)
(***************************************************************************)
DigitString == <<"0", "1", "2", "3", "4", "5", "6", "7", "8", "9">>

Digit == {DigitString[i] : i \in 1..Len(DigitString)}

RECURSIVE DecimalDigits(_)
\* the decimal digits of a natural number, most significant first
DecimalDigits(n) ==
    IF n < 10 THEN <<DigitString[n + 1]>>
    ELSE DecimalDigits(n \div 10) \o <<DigitString[(n % 10) + 1]>>

\* `${N}`: the string literal type a number type prints as
TemplateOfNumber(N) ==
    CASE N.kind = "lit" ->
            IF N.val < 0 THEN <<"-">> \o DecimalDigits(-N.val)
            ELSE DecimalDigits(N.val)
      [] N.kind = "exp" -> <<"1", "e", "+">> \o DecimalDigits(N.val)
      [] N.kind = "neginf" -> <<"-", "I", "n", "f", "i", "n", "i", "t", "y">>
      [] OTHER -> <<"$", "{", N.kind, "}">>

(***************************************************************************)
(* greater-than.types.ts                                                   *)
(***************************************************************************)
\* DigitString extends `${string}${B}${string}${A}${string}`
DigitGreaterThan(A, B) ==
    IF A = B THEN FALSE
    ELSE \E i, j \in 1..Len(DigitString) :
            /\ i < j
            /\ DigitString[i] = B
            /\ DigitString[j] = A

RECURSIVE CompareSameLengthPositive(_, _)
CompareSameLengthPositive(A, B) ==
    IF Len(A) > 0 /\ Head(A) \in Digit
    THEN IF Len(B) > 0 /\ Head(B) \in Digit
         THEN IF Head(A) = Head(B)
              THEN CompareSameLengthPositive(Tail(A), Tail(B))
              ELSE IF DigitGreaterThan(Head(A), Head(B)) THEN 1 ELSE -1
         ELSE 0
    ELSE 0

RECURSIVE IsLonger(_, _)
IsLonger(A, B) ==
    IF Len(A) > 0
    THEN IF Len(B) > 0 THEN IsLonger(Tail(A), Tail(B)) ELSE TRUE
    ELSE FALSE

\* variant: the digit-by-digit comparison without the length comparison
PositiveStringGreaterThan_NoLength(A, B) ==
    CompareSameLengthPositive(A, B) = 1

PositiveStringGreaterThan(A, B) ==
    IF IsLonger(A, B) THEN TRUE
    ELSE IF IsLonger(B, A) THEN FALSE
    ELSE CompareSameLengthPositive(A, B) = 1

IsNegative(N) ==
    LET s == TemplateOfNumber(N) IN Len(s) > 0 /\ Head(s) = "-"

AbsoluteString(N) ==
    LET s == TemplateOfNumber(N)
    IN  IF Len(s) > 0 /\ Head(s) = "-" THEN Tail(s) ELSE s

\* [A] extends [B]: assignability of one number type to another
NumberExtends(A, B) ==
    \/ A = B
    \/ /\ B.kind = "number"
       /\ A.kind \in {"lit", "exp", "neginf"}

IsEqual(A, B) == NumberExtends(A, B) /\ NumberExtends(B, A)

CompareFinite(A, B) ==
    CASE IsNegative(A) /\ IsNegative(B) ->
            PositiveStringGreaterThan(AbsoluteString(B), AbsoluteString(A))
      [] IsNegative(A) /\ ~IsNegative(B) -> FALSE
      [] ~IsNegative(A) /\ IsNegative(B) -> TRUE
      [] OTHER ->
            PositiveStringGreaterThan(AbsoluteString(A), AbsoluteString(B))

IsGreaterThan(A, B) ==
    LET AIsInf == IsEqual(A, TypeofInfinity)
        AIsNegInf == IsEqual(A, TypeofNegativeInfinity)
        BIsInf == IsEqual(B, TypeofInfinity)
        BIsNegInf == IsEqual(B, TypeofNegativeInfinity)
    IN  IF AIsInf THEN (IF BIsInf THEN FALSE ELSE TRUE)
        ELSE IF BIsNegInf THEN (IF AIsNegInf THEN FALSE ELSE TRUE)
        ELSE IF AIsNegInf THEN FALSE
        ELSE IF BIsInf THEN FALSE
        ELSE CompareFinite(A, B)

\* variant: the negation of IsGreaterThan instead of its converse
LessThan_Negation(A, B) == ~IsGreaterThan(A, B)

LessThan(A, B) == IsGreaterThan(B, A)

\* variant: the strict comparison, without the `A extends B` shortcut
GreaterThanOrEqual_Strict(A, B) == IsGreaterThan(A, B)

GreaterThanOrEqual(A, B) ==
    IF NumberExtends(A, B) THEN TRUE ELSE IsGreaterThan(A, B)

LessThanOrEqual(A, B) ==
    IF NumberExtends(A, B) THEN TRUE ELSE LessThan(A, B)

(***************************************************************************)
(* Value types.  The type of the records of a store (z.infer<ZodSchema>)   *)
(* is an object type; the type of a property is a union of atomic types    *)
(* ("prim", the empty union being never) or again an object type.          *)
(* The atom "numlit" is a numeric literal type such as z.literal(1),       *)
(* "string[]" an array of valid keys, "boolean[]" an array of values that  *)
(* are no keys.  The atom "undefined" in the type of a property stands for *)
(* an optional property (z.optional()).                                    *)
(***************************************************************************)
NoProps == [p \in {} |-> 0]

Prim(alts) == [kind |-> "prim", alts |-> alts, props |-> NoProps]

Obj(props) == [kind |-> "object", alts |-> {}, props |-> props]

Never == Prim({})

TNumber == Prim({"number"})

\* assignability of one atomic type to another
AtomExtends(a, b) == a = b \/ (a = "numlit" /\ b = "number")

\* lib.dom.d.ts: IDBValidKey = number | string | Date | BufferSource | IDBValidKey[]
IDBValidKeyAtoms == {"number", "string", "Date", "ArrayBuffer", "string[]"}

\* T extends IDBValidKey, T not distributed (never extends everything)
ExtendsIDBValidKey(T) ==
    /\ T.kind = "prim"
    /\ \A a \in T.alts : \E b \in IDBValidKeyAtoms : AtomExtends(a, b)

\* the properties of an atomic type that a key path can name
AtomProps(a) ==
    IF a \in {"string", "string[]", "boolean[]"}
    THEN [length |-> TNumber] ELSE NoProps

\* the array types and their element types
ArrayAtoms == {"string[]", "boolean[]"}

ElementAtom(a) == IF a = "string[]" THEN "string" ELSE "boolean"

RECURSIVE Extends(_, _)
\* A extends B, A not distributed: assignability of one value type to
\* another; an object is assignable to an object that has fewer properties,
\* and may lack the properties that are optional there
Extends(A, B) ==
    CASE A.kind = "prim" /\ B.kind = "prim" ->
            \A a \in A.alts : \E b \in B.alts : AtomExtends(a, b)
      [] A.kind = "object" /\ B.kind = "object" ->
            \A p \in DOMAIN B.props :
                IF p \in DOMAIN A.props
                THEN Extends(A.props[p], B.props[p])
                ELSE B.props[p].kind = "prim"
                        /\ "undefined" \in B.props[p].alts
      [] OTHER -> A = Never

\* keyof T: for a union, the keys common to all members
KeyOf(T) ==
    CASE T.kind = "object" -> DOMAIN T.props
      [] T.kind = "prim" /\ T.alts # {} ->
            {k \in {"length"} : \A a \in T.alts : k \in DOMAIN AtomProps(a)}
      [] OTHER -> {}

\* T[K] for K in keyof T
IndexType(T, K) == IF T.kind = "object" THEN T.props[K] ELSE TNumber

(***************************************************************************)
(* Key paths.  A string key path is the sequence of its dot-separated      *)
(* segments ("address.city" is <<"address", "city">>, "" is <<"">>), so    *)
(* that `${infer First}.${infer Rest}` matches exactly the paths of two or *)
(* more segments, First being the first and Rest the others.               *)
(***************************************************************************)
PathUndefined == [kind |-> "undefined"]

StringPath(segs) == [kind |-> "string", segs |-> segs]

ArrayPath(elems) == [kind |-> "array", elems |-> elems]

NeverPath == [kind |-> "never"]

RECURSIVE ValidStringPath(_, _)
\* ValidateStringPath<T, Path> is not never
ValidStringPath(T, segs) ==
    IF segs = <<"">>
    THEN \* T extends IDBValidKey, distributed over the members of T
         T.kind = "prim" /\ \E a \in T.alts : ExtendsIDBValidKey(Prim({a}))
    ELSE IF Len(segs) >= 2
    THEN Head(segs) \in KeyOf(T)
            /\ ValidStringPath(IndexType(T, Head(segs)), Tail(segs))
    ELSE Head(segs) \in KeyOf(T)
            /\ ExtendsIDBValidKey(IndexType(T, Head(segs)))

ValidateStringPath(T, Path) ==
    IF ValidStringPath(T, Path.segs) THEN Path ELSE NeverPath

RECURSIVE ValidArrayPath(_, _, _)
\* ValidateArrayPath<T, Path, OriginalT> is not never
ValidArrayPath(T, elems, OriginalT) ==
    IF elems = <<>> THEN TRUE
    ELSE LET First == Head(elems)
             Rest == Tail(elems)
         IN  IF Len(First) >= 2
             THEN /\ Head(First) \in KeyOf(T)
                  /\ ValidStringPath(IndexType(T, Head(First)), Tail(First))
                  /\ (Rest = <<>> \/ ValidArrayPath(OriginalT, Rest, OriginalT))
             ELSE /\ Head(First) \in KeyOf(T)
                  /\ ExtendsIDBValidKey(IndexType(T, Head(First)))
                  /\ (Rest = <<>> \/ ValidArrayPath(OriginalT, Rest, OriginalT))

ValidateArrayPath(T, Path) ==
    IF ValidArrayPath(T, Path.elems, T) THEN Path ELSE NeverPath

ValidateKeyPath(T, Path) ==
    CASE Path.kind = "undefined" -> PathUndefined
      [] Path.kind = "string" -> ValidateStringPath(T, Path)
      [] Path.kind = "array" -> ValidateArrayPath(T, Path)
      [] OTHER -> NeverPath

RECURSIVE ResolveSingleKeyPath(_, _)
ResolveSingleKeyPath(T, segs) ==
    IF Len(segs) >= 2
    THEN IF Head(segs) \in KeyOf(T)
         THEN ResolveSingleKeyPath(IndexType(T, Head(segs)), Tail(segs))
         ELSE Never
    ELSE IF Head(segs) \in KeyOf(T) THEN IndexType(T, Head(segs)) ELSE Never

RECURSIVE ResolveArrayKeyPath(_, _)
ResolveArrayKeyPath(T, elems) ==
    IF elems = <<>> THEN <<>>
    ELSE <<ResolveSingleKeyPath(T, Head(elems))>>
            \o ResolveArrayKeyPath(T, Tail(elems))

ResolveKeyPath(T, Path) ==
    CASE Path.kind = "undefined" -> Prim(IDBValidKeyAtoms)
      [] Path.kind = "array" ->
            [kind |-> "tuple", elems |-> ResolveArrayKeyPath(T, Path.elems)]
      [] Path.kind = "string" -> ResolveSingleKeyPath(T, Path.segs)
      [] OTHER -> Never

\* variant: the name of one invalid index only
FindInvalidIndexKeyPath_First(NewValue, Indexes) ==
    LET invalid == {K \in DOMAIN Indexes :
                        ValidateKeyPath(NewValue, Indexes[K].keyPath) = NeverPath}
    IN  IF invalid = {} THEN {} ELSE {CHOOSE K \in invalid : TRUE}

\* the members of the union FindInvalidIndexKeyPath<NewValue, Indexes>: the
\* names of the indexes whose key path is not valid in NewValue
FindInvalidIndexKeyPath(NewValue, Indexes) ==
    {K \in DOMAIN Indexes :
        ValidateKeyPath(NewValue, Indexes[K].keyPath) = NeverPath}

\* the members of the union ValidateMultiEntryIndex<Value, KeyPath,
\* MultiEntry>: {TRUE} is true, {FALSE} is false, {TRUE, FALSE} is boolean.
\* `E extends IDBValidKey` distributes over the element type E; for a key
\* path that resolves to never nothing is inferred for E, which is unknown.
ValidateMultiEntryIndex(Value, KeyPath, MultiEntry) ==
    IF MultiEntry
    THEN LET R == ResolveKeyPath(Value, KeyPath)
         IN  IF R.kind = "prim" /\ R.alts # {} /\ R.alts \subseteq ArrayAtoms
             THEN {ExtendsIDBValidKey(Prim({ElementAtom(a)})) : a \in R.alts}
             ELSE {FALSE}
    ELSE {TRUE}

\* number extends R
NumberAssignableTo(R) == R.kind = "prim" /\ "number" \in R.alts

\* R extends number (never extends number)
AssignableToNumber(R) ==
    R.kind = "prim" /\ \A a \in R.alts : AtomExtends(a, "number")

\* variant: the key type only has to be a valid key, not a number
ValidateAutoIncrementKey_AnyKey(T, Path, AutoIncrement) ==
    IF AutoIncrement /\ Path.kind = "array" THEN NeverPath ELSE Path

\* variant: a composite key is allowed when all its elements are numbers
ValidateAutoIncrementKey_CompositeNumbers(T, Path, AutoIncrement) ==
    IF AutoIncrement
    THEN IF Path.kind = "string"
         THEN IF NumberAssignableTo(ResolveSingleKeyPath(T, Path.segs))
                    \/ AssignableToNumber(ResolveSingleKeyPath(T, Path.segs))
              THEN Path ELSE NeverPath
         ELSE IF Path.kind = "undefined" THEN Path
         ELSE IF \A i \in 1..Len(Path.elems) :
                    AssignableToNumber(ResolveSingleKeyPath(T, Path.elems[i]))
              THEN Path ELSE NeverPath
    ELSE Path

ValidateAutoIncrementKey(T, Path, AutoIncrement) ==
    IF AutoIncrement
    THEN IF Path.kind = "string"
         THEN IF NumberAssignableTo(ResolveSingleKeyPath(T, Path.segs))
              THEN Path
              ELSE IF AssignableToNumber(ResolveSingleKeyPath(T, Path.segs))
                   THEN Path
                   ELSE NeverPath
         ELSE IF Path.kind = "undefined" THEN Path ELSE NeverPath
    ELSE Path

(***************************************************************************)
(* migration-error.types.ts.  A message is a sequence of text pieces; the  *)
(* __message of an error type is the set of its alternatives (a template   *)
(* over a union is the union of the templates).                            *)
(***************************************************************************)
RECURSIVE JoinSegments(_)
\* the text of a string key path: its segments joined by dots
JoinSegments(segs) ==
    IF Len(segs) = 1 THEN <<Head(segs)>>
    ELSE <<Head(segs), ".">> \o JoinSegments(Tail(segs))

RECURSIVE StringifyRest(_)
StringifyRest(elems) ==
    IF elems = <<>> THEN <<>>
    ELSE <<", ">> \o JoinSegments(Head(elems)) \o StringifyRest(Tail(elems))

Stringify(Path) ==
    CASE Path.kind = "string" -> JoinSegments(Path.segs)
      [] Path.kind = "array" /\ Path.elems # <<>> ->
            <<"[">> \o JoinSegments(Head(Path.elems))
                \o StringifyRest(Tail(Path.elems)) \o <<"]">>
      [] Path.kind = "undefined" -> <<"undefined">>
      [] OTHER -> <<"unknown">>

\* TypeName of one member of a union
\* (boolean[] is no IDBValidKey[]: it falls through to 'object')
AtomTypeName(a) ==
    CASE a = "string" -> "string"
      [] a \in {"number", "numlit"} -> "number"
      [] a = "boolean" -> "boolean"
      [] a = "Date" -> "Date"
      [] a = "ArrayBuffer" -> "ArrayBuffer"
      [] a = "string[]" -> "Array"
      [] a = "undefined" -> "undefined"
      [] a = "null" -> "null"
      [] OTHER -> "object"

\* TypeName<T>, distributed over the members of T: the set of alternatives
TypeName(T) ==
    CASE T.kind = "prim" -> {AtomTypeName(a) : a \in T.alts}
      [] T.kind = "tuple" ->
            IF \A i \in 1..Len(T.elems) :
                    T.elems[i].alts # {} /\ ExtendsIDBValidKey(T.elems[i])
            THEN {"Array"} ELSE {"object"}
      [] OTHER -> {"object"}

MigrationError(Kind, Messages) ==
    [kind |-> "MigrationError", __error |-> Kind, __message |-> Messages]

InvalidKeyPath(Messages) == MigrationError("InvalidKeyPath", Messages)

InvalidAutoIncrementKey(Messages) ==
    MigrationError("InvalidAutoIncrementKey", Messages)

InvalidAlteration(Messages) == MigrationError("InvalidAlteration", Messages)

InvalidIndexKeyPath(Messages) == MigrationError("InvalidIndexKeyPath", Messages)

InvalidMultiEntry(Messages) == MigrationError("InvalidMultiEntry", Messages)

(***************************************************************************)
(* migration-builder.types.ts: the schema tracked in the type parameter S. *)
(* A Zod schema is represented by the type it infers.                      *)
(***************************************************************************)
ZodType(T) == [zod |-> T]

ZInfer(ZodSchema) == ZodSchema.zod

NoIndexes == [i \in {} |-> 0]

EmptySchema == [n \in {} |-> 0]

StoreInfo(Value, Indexes, ZodSchema, PrimaryKeyPath, AutoIncrement) ==
    [value |-> Value, indexes |-> Indexes, schema |-> ZodSchema,
     primaryKeyPath |-> PrimaryKeyPath, autoIncrement |-> AutoIncrement]

UpdateStore(Schema, StoreName, NewStoreInfo) ==
    [K \in (DOMAIN Schema) \cup {StoreName} |->
        IF K = StoreName THEN NewStoreInfo ELSE Schema[K]]

IndexInfo(KeyPath, MultiEntry, Unique) ==
    [keyPath |-> KeyPath, multiEntry |-> MultiEntry, unique |-> Unique]

ExtractStoreInfo(S, StoreName) ==
    [value |-> S[StoreName].value, indexes |-> S[StoreName].indexes,
     schema |-> S[StoreName].schema,
     primaryKeyPath |-> S[StoreName].primaryKeyPath,
     autoIncrement |-> S[StoreName].autoIncrement]

\* Updates is a record with some of the fields of a StoreInfo
UpdateStoreInfo(Info, Updates) ==
    StoreInfo(
        IF "value" \in DOMAIN Updates THEN Updates.value ELSE Info.value,
        IF "indexes" \in DOMAIN Updates THEN Updates.indexes ELSE Info.indexes,
        IF "schema" \in DOMAIN Updates THEN Updates.schema ELSE Info.schema,
        IF "primaryKeyPath" \in DOMAIN Updates
            THEN Updates.primaryKeyPath ELSE Info.primaryKeyPath,
        IF "autoIncrement" \in DOMAIN Updates
            THEN Updates.autoIncrement ELSE Info.autoIncrement)

\* variant: no store is left
Omit_Everything(S, Name) == [K \in {} |-> S[K]]

\* Omit<S, Name>
Omit(S, Name) == [K \in (DOMAIN S) \ {Name} |-> S[K]]

ResolveStoreKeyType(Value, Path, AutoIncrement) ==
    IF AutoIncrement
    THEN IF Path.kind = "undefined" THEN TNumber
         ELSE ResolveKeyPath(Value, Path)
    ELSE ResolveKeyPath(Value, Path)

SchemaToIDBSchema(S) ==
    [K \in DOMAIN S |->
        [key |-> ResolveStoreKeyType(S[K].value, S[K].primaryKeyPath,
                                     S[K].autoIncrement),
         value |-> S[K].value]]

(***************************************************************************)
(* ValidateVersion.  The result is the parameter type of version(): V      *)
(* itself, or a string literal type that no number is assignable to.       *)
(***************************************************************************)
StringLiteral(text) == [kind |-> "string literal", text |-> text]

\* (the source text ends its examples with an ellipsis character)
BroadVersionMessage ==
    StringLiteral(<<"specific numeric literal or static constant (e.g. 1, 2, 3, ...)">>)

\* variant: the first-version shortcut tested before the broad-number test
ValidateVersion_FirstVersionFirst(V, PrevVersion) ==
    IF PrevVersion.kind = "undefined" THEN V
    ELSE IF V = BroadNumber THEN BroadVersionMessage
    ELSE IF IsGreaterThan(V, PrevVersion) THEN V
    ELSE StringLiteral(<<"integer greater than ">> \o TemplateOfNumber(PrevVersion))

ValidateVersion(V, PrevVersion) ==
    IF NumberExtends(BroadNumber, V) THEN BroadVersionMessage
    ELSE IF PrevVersion.kind = "undefined" THEN V
    ELSE IF IsGreaterThan(V, PrevVersion) THEN V
    ELSE StringLiteral(<<"integer greater than ">> \o TemplateOfNumber(PrevVersion))

(***************************************************************************)
(* VersionBuilder.  A builder expression has a static type, which is       *)
(* VersionBuilder<S> or, after a call the validation refused, a            *)
(* MigrationError type without methods, and a run-time actions list.  A    *)
(* call whose argument is not assignable to its parameter does not compile *)
(* ("CompileError").                                                       *)
(***************************************************************************)
VersionBuilderType(Schema) == [kind |-> "VersionBuilder", S |-> Schema]

CompileError == [kind |-> "CompileError"]

NewVersionBuilder(Schema) ==
    [type |-> VersionBuilderType(Schema), actions |-> <<>>]

\* private chain(): a new builder with one more action
Chain(self, type, action) ==
    [type |-> type, actions |-> Append(self.actions, action)]

\* the return type of createObjectStore
CreateObjectStoreType(Schema, Name, ZodSchema, PrimaryKey, AutoIncrement) ==
    IF ValidateKeyPath(ZInfer(ZodSchema), PrimaryKey) = NeverPath
    THEN InvalidKeyPath({<<"Primary key '">> \o Stringify(PrimaryKey)
                            \o <<"' is not a valid path in the schema">>})
    ELSE IF ValidateAutoIncrementKey(ZInfer(ZodSchema), PrimaryKey,
                                     AutoIncrement) = NeverPath
    THEN InvalidAutoIncrementKey(
            {<<"autoIncrement requires keyPath to resolve to number, but '">>
                \o Stringify(PrimaryKey) \o <<"' resolves to ", n>> :
             n \in TypeName(ResolveKeyPath(ZInfer(ZodSchema), PrimaryKey))})
    ELSE VersionBuilderType(
            UpdateStore(Schema, Name,
                        StoreInfo(ZInfer(ZodSchema), NoIndexes, ZodSchema,
                                  PrimaryKey, AutoIncrement)))

\* createObjectStore(name, _schema, options); an omitted primaryKey is
\* PathUndefined, the autoIncrement option is "true", "false" or "omitted"
createObjectStore(self, name, ZodSchema, primaryKey, autoIncrement) ==
    IF name \in DOMAIN self.type.S
    THEN \* name: Name & Exclude<Name, keyof S> is never
         [type |-> CompileError, actions |-> self.actions]
    ELSE Chain(self,
               CreateObjectStoreType(self.type.S, name, ZodSchema, primaryKey,
                                     autoIncrement = "true"),
               [action |-> "create-object-store", storeName |-> name,
                keyPath |-> primaryKey, autoIncrement |-> autoIncrement])

\* deleteObjectStore(name)
deleteObjectStore(self, name) ==
    IF name \notin DOMAIN self.type.S
    THEN \* Name extends keyof S & string
         [type |-> CompileError, actions |-> self.actions]
    ELSE Chain(self, VersionBuilderType(Omit(self.type.S, name)),
               [action |-> "delete-object-store", storeName |-> name])

\* variant: the autoIncrement key is not validated against the new value
TransformRecordsType_NoAutoIncrementCheck(S, Name, NewValue) ==
    LET Info == ExtractStoreInfo(S, Name)
        InvalidIndex == FindInvalidIndexKeyPath(NewValue, Info.indexes)
    IN  IF ValidateKeyPath(NewValue, Info.primaryKeyPath) = NeverPath
        THEN InvalidKeyPath(
                {<<"Transform invalidates primaryKey '">>
                    \o Stringify(Info.primaryKeyPath)
                    \o <<"': keyPath no longer valid for new value type">>})
        ELSE IF InvalidIndex = {}
        THEN VersionBuilderType(
                UpdateStore(S, Name,
                            StoreInfo(NewValue, Info.indexes, Info.schema,
                                      Info.primaryKeyPath, Info.autoIncrement)))
        ELSE InvalidIndexKeyPath(
                {<<"Transform invalidates index '", i,
                   "': keyPath no longer valid for new value type">> :
                 i \in InvalidIndex})

\* variant: the accepted transform gives the store an empty index set
TransformRecordsType_DropsIndexes(S, Name, NewValue) ==
    LET Info == ExtractStoreInfo(S, Name)
        InvalidIndex == FindInvalidIndexKeyPath(NewValue, Info.indexes)
    IN  IF ValidateKeyPath(NewValue, Info.primaryKeyPath) = NeverPath
        THEN InvalidKeyPath(
                {<<"Transform invalidates primaryKey '">>
                    \o Stringify(Info.primaryKeyPath)
                    \o <<"': keyPath no longer valid for new value type">>})
        ELSE IF ValidateAutoIncrementKey(NewValue, Info.primaryKeyPath,
                                         Info.autoIncrement) = NeverPath
        THEN InvalidAutoIncrementKey(
                {<<"autoIncrement requires keyPath to resolve to number after transform, but '">>
                    \o Stringify(Info.primaryKeyPath)
                    \o <<"' resolves to ", n>> :
                 n \in TypeName(ResolveKeyPath(NewValue, Info.primaryKeyPath))})
        ELSE IF InvalidIndex = {}
        THEN VersionBuilderType(
                UpdateStore(S, Name,
                            StoreInfo(NewValue, NoIndexes, Info.schema,
                                      Info.primaryKeyPath, Info.autoIncrement)))
        ELSE InvalidIndexKeyPath(
                {<<"Transform invalidates index '", i,
                   "': keyPath no longer valid for new value type">> :
                 i \in InvalidIndex})

\* the return type of transformRecords; InvalidIndex is the default of the
\* type parameter of that name
TransformRecordsType(S, Name, NewValue) ==
    LET Info == ExtractStoreInfo(S, Name)
        InvalidIndex == FindInvalidIndexKeyPath(NewValue, Info.indexes)
    IN  IF ValidateKeyPath(NewValue, Info.primaryKeyPath) = NeverPath
        THEN InvalidKeyPath(
                {<<"Transform invalidates primaryKey '">>
                    \o Stringify(Info.primaryKeyPath)
                    \o <<"': keyPath no longer valid for new value type">>})
        ELSE IF ValidateAutoIncrementKey(NewValue, Info.primaryKeyPath,
                                         Info.autoIncrement) = NeverPath
        THEN InvalidAutoIncrementKey(
                {<<"autoIncrement requires keyPath to resolve to number after transform, but '">>
                    \o Stringify(Info.primaryKeyPath)
                    \o <<"' resolves to ", n>> :
                 n \in TypeName(ResolveKeyPath(NewValue, Info.primaryKeyPath))})
        ELSE IF InvalidIndex = {}
        THEN VersionBuilderType(
                UpdateStore(S, Name,
                            StoreInfo(NewValue, Info.indexes, Info.schema,
                                      Info.primaryKeyPath, Info.autoIncrement)))
        ELSE InvalidIndexKeyPath(
                {<<"Transform invalidates index '", i,
                   "': keyPath no longer valid for new value type">> :
                 i \in InvalidIndex})

\* transformRecords(name, transform); the transform function is represented
\* by its return type NewValue
transformRecords(self, name, NewValue) ==
    IF name \notin DOMAIN self.type.S
    THEN [type |-> CompileError, actions |-> self.actions]
    ELSE Chain(self, TransformRecordsType(self.type.S, name, NewValue),
               [action |-> "transform-object-store", storeName |-> name,
                transform |-> NewValue])

\* Info['indexes'] & Record<IndexName, IndexInfo<KeyPath, MultiEntry, Unique>>
WithIndex(Indexes, IndexName, Info) ==
    [K \in (DOMAIN Indexes) \cup {IndexName} |->
        IF K = IndexName THEN Info ELSE Indexes[K]]

\* the return type of createIndex
CreateIndexType(S, IndexName, StoreName, KeyPath, MultiEntry, Unique) ==
    LET Info == ExtractStoreInfo(S, StoreName)
        Accepted ==
            VersionBuilderType(
                UpdateStore(S, StoreName,
                    UpdateStoreInfo(Info,
                        [indexes |->
                            WithIndex(Info.indexes, IndexName,
                                      IndexInfo(KeyPath, MultiEntry, Unique))])))
    IN  IF ValidateKeyPath(Info.value, KeyPath) = NeverPath
        THEN InvalidKeyPath(
                {<<"Index keyPath '">> \o Stringify(KeyPath)
                    \o <<"' is not a valid path in store '", StoreName, "'">>})
        ELSE IF KeyPath.kind = "string"
        THEN IF ValidateMultiEntryIndex(Info.value, KeyPath, MultiEntry)
                    \subseteq {TRUE}
             THEN Accepted
             ELSE InvalidMultiEntry(
                    {<<"multiEntry index '", IndexName,
                       "' requires keyPath to point to an array of valid IDB keys">>})
        ELSE IF MultiEntry
             THEN InvalidMultiEntry(
                    {<<"multiEntry cannot be used with composite keyPath">>})
             ELSE Accepted

\* createIndex(indexName, options); the multiEntry and unique options are
\* "true", "false" or "omitted"
createIndex(self, indexName, storeName, keyPath, multiEntry, unique) ==
    IF storeName \notin DOMAIN self.type.S
    THEN \* StoreName extends keyof S & string
         [type |-> CompileError, actions |-> self.actions]
    ELSE IF indexName \in DOMAIN self.type.S[storeName].indexes
    THEN \* indexName: IndexName & Exclude<IndexName, keyof Info['indexes']>
         [type |-> CompileError, actions |-> self.actions]
    ELSE Chain(self,
               CreateIndexType(self.type.S, indexName, storeName, keyPath,
                               multiEntry = "true", unique = "true"),
               [action |-> "create-index", storeName |-> storeName,
                indexName |-> indexName, keyPath |-> keyPath,
                multiEntry |-> multiEntry, unique |-> unique])

\* deleteIndex(indexName, options)
deleteIndex(self, indexName, storeName) ==
    IF storeName \notin DOMAIN self.type.S
    THEN [type |-> CompileError, actions |-> self.actions]
    ELSE IF indexName \notin DOMAIN self.type.S[storeName].indexes
    THEN \* IndexName extends keyof Info['indexes'] & string
         [type |-> CompileError, actions |-> self.actions]
    ELSE LET Info == ExtractStoreInfo(self.type.S, storeName)
         IN  Chain(self,
                   VersionBuilderType(
                       UpdateStore(self.type.S, storeName,
                           UpdateStoreInfo(Info,
                               [indexes |->
                                   [K \in (DOMAIN Info.indexes) \ {indexName}
                                        |-> Info.indexes[K]]]))),
                   [action |-> "delete-index", storeName |-> storeName,
                    indexName |-> indexName])

\* the return type of alterObjectStore
AlterObjectStoreType(S, StoreName, NewSchema) ==
    LET Info == ExtractStoreInfo(S, StoreName)
    IN  IF Extends(ZInfer(Info.schema), ZInfer(NewSchema))
        THEN VersionBuilderType(
                UpdateStore(S, StoreName,
                            StoreInfo(ZInfer(NewSchema), Info.indexes, NewSchema,
                                      Info.primaryKeyPath, Info.autoIncrement)))
        ELSE InvalidAlteration(
                {<<"Schema alteration is not backwards-compatible: existing data may not satisfy new schema. Use transformRecords for breaking changes.">>})

\* the _transform arguments of alterObjectStore, by name:
\*   same            oldSchema => oldSchema
\*   extendOptional  oldSchema => oldSchema.extend({ email: z.string().optional() })
\*   extendRequired  oldSchema => oldSchema.extend({ email: z.string() })
\*   omitName        oldSchema => oldSchema.omit({ name: true })
ApplySchemaTransform(transform, oldSchema) ==
    LET T == ZInfer(oldSchema)
        extend(E) ==
            ZodType(Obj([p \in (DOMAIN T.props) \cup {"email"} |->
                            IF p = "email" THEN E ELSE T.props[p]]))
    IN  CASE transform = "extendOptional" ->
                extend(Prim({"string", "undefined"}))
          [] transform = "extendRequired" -> extend(Prim({"string"}))
          [] transform = "omitName" ->
                ZodType(Obj([p \in (DOMAIN T.props) \ {"name"} |-> T.props[p]]))
          [] OTHER -> oldSchema

\* variant: the alteration is recorded as an action of the version
alterObjectStore_Recorded(self, storeName, transform) ==
    IF storeName \notin DOMAIN self.type.S
    THEN [type |-> CompileError, actions |-> self.actions]
    ELSE Chain(self,
               AlterObjectStoreType(self.type.S, storeName,
                    ApplySchemaTransform(transform,
                                         self.type.S[storeName].schema)),
               [action |-> "alter-object-store", storeName |-> storeName])

\* alterObjectStore(_storeName, _transform): returns this; NewSchema is what
\* _transform returns for oldSchema: S[StoreName]['schema']
alterObjectStore(self, storeName, transform) ==
    IF storeName \notin DOMAIN self.type.S
    THEN \* StoreName extends keyof S & string
         [type |-> CompileError, actions |-> self.actions]
    ELSE [type |-> AlterObjectStoreType(self.type.S, storeName,
                        ApplySchemaTransform(transform,
                                             self.type.S[storeName].schema)),
          actions |-> self.actions]

\* one method call of a callback, as data
MethodCall(self, c) ==
    CASE c.method = "createObjectStore" ->
            createObjectStore(self, c.name, c.schema, c.primaryKey,
                              c.autoIncrement)
      [] c.method = "deleteObjectStore" -> deleteObjectStore(self, c.name)
      [] c.method = "transformRecords" ->
            transformRecords(self, c.name, c.NewValue)
      [] c.method = "createIndex" ->
            createIndex(self, c.indexName, c.storeName, c.keyPath,
                        c.multiEntry, c.unique)
      [] c.method = "deleteIndex" ->
            deleteIndex(self, c.indexName, c.storeName)
      [] OTHER -> alterObjectStore(self, c.storeName, c.transform)

RECURSIVE RunFn(_, _)
\* fn(new VersionBuilder<S>()): the calls of the callback, chained; a method
\* called on an expression that is no VersionBuilder does not compile
RunFn(self, calls) ==
    IF calls = <<>> THEN self
    ELSE IF self.type.kind # "VersionBuilder"
         THEN [type |-> CompileError, actions |-> self.actions]
         ELSE RunFn(MethodCall(self, Head(calls)), Tail(calls))

(***************************************************************************)
(* The inputs of the builders.                                             *)
(***************************************************************************)
TString == Prim({"string"})

\* z.object({ id: z.string(), name: z.string() })
UserValue == Obj([id |-> TString, name |-> TString])

\* z.object({ name: z.string(), timestamp: z.date() })
EventValue == Obj([name |-> TString, timestamp |-> Prim({"Date"})])

\* an object with a property of every kind the validations tell apart
AccountValue ==
    Obj([id |-> TNumber,
         name |-> TString,
         tag |-> Prim({"number", "string"}),
         rev |-> Prim({"numlit"}),
         active |-> Prim({"boolean"}),
         seq |-> Prim({"number", "undefined"}),
         owner |-> Obj([id |-> TNumber, email |-> TString])])

\* z.object({ customerId: z.number(), orderId: z.number(), amount: z.number() })
OrderValue ==
    Obj([customerId |-> TNumber, orderId |-> TNumber, amount |-> TNumber])

\* z.union([z.string(), z.boolean()])
StringOrBoolean == Prim({"string", "boolean"})

\* the object schemas, and z.string() and a union as values that are no objects
ValueTypes ==
    {UserValue, EventValue, AccountValue, OrderValue, TString, StringOrBoolean}

StoreNames == {"users", "events"}

StringKeyPaths ==
    {StringPath(<<p>>) : p \in {"id", "name", "tag", "rev", "active", "seq", "missing"}}
        \cup {StringPath(<<"owner", "id">>), StringPath(<<"name", "length">>)}
        \cup {StringPath(<<"">>), StringPath(<<"name", "">>)}

PrimaryKeys ==
    {PathUndefined} \cup StringKeyPaths
        \cup {ArrayPath(<<<<"id">>, <<"name">>>>),
              ArrayPath(<<<<"customerId">>, <<"orderId">>>>)}

AutoIncrementOptions == {"true", "false", "omitted"}

\* a createObjectStore call of a callback, as data
CreateCall(name, T, primaryKey, autoIncrement) ==
    [method |-> "createObjectStore", name |-> name, schema |-> ZodType(T),
     primaryKey |-> primaryKey, autoIncrement |-> autoIncrement]

(***************************************************************************)
(* SpecVB: the methods of one VersionBuilder, called one after another.    *)
(***************************************************************************)
NoCall == [method |-> "none"]

InitVB ==
    /\ vb = NewVersionBuilder(EmptySchema)
    /\ vbCall = NoCall
    /\ migrations = <<>>
    /\ mbS = EmptySchema
    /\ mbPrevVersion = Undefined
    /\ mbCall = NoCall
    /\ builders = <<>>
    /\ cmpA = Undefined
    /\ cmpB = Undefined
    /\ cmpOp = "none"
    /\ cmpRes = FALSE

CreateObjectStore(name, T, primaryKey, autoIncrement) ==
    /\ vb.type.kind = "VersionBuilder"
    /\ Len(vb.actions) < MaxActions
    /\ LET r == createObjectStore(vb, name, ZodType(T), primaryKey, autoIncrement)
       IN  IF r.type = CompileError
           THEN /\ vb' = vb
                /\ vbCall' = [method |-> "createObjectStore", name |-> name,
                              returns |-> r.type]
           ELSE /\ vb' = r
                /\ vbCall' = [method |-> "createObjectStore", name |-> name,
                              value |-> T, primaryKey |-> primaryKey,
                              autoIncrement |-> autoIncrement,
                              returns |-> r.type]
    /\ UNCHANGED <<mbVars, cmpVars>>

NextVB ==
    \E name \in StoreNames, T \in ValueTypes, primaryKey \in PrimaryKeys,
       autoIncrement \in AutoIncrementOptions :
        CreateObjectStore(name, T, primaryKey, autoIncrement)

SpecVB == InitVB /\ [][NextVB]_vars

(***************************************************************************)
(* SpecOps: all methods of one VersionBuilder, called one after another on *)
(* the builder that version() hands to its callback: new VersionBuilder<S> *)
(* for the schema S that the earlier versions left.                        *)
(***************************************************************************)
\* the most actions of a builder on which another deleteObjectStore,
\* transformRecords, createIndex or deleteIndex is called
MaxOps == 1

\* z.object({ id: z.number(), name: z.string(), tags: z.array(z.string()),
\*            flags: z.array(z.boolean()) })
MemberValue ==
    Obj([id |-> TNumber, name |-> TString, tags |-> Prim({"string[]"}),
         flags |-> Prim({"boolean[]"})])

\* the return types of the transform functions of transformRecords:
\* the id alone, as a string; the record with the id as number | string;
\* the id alone; the name alone
NewValues ==
    {Obj([id |-> TString]),
     Obj([id |-> Prim({"number", "string"}), name |-> TString,
          tags |-> Prim({"string[]"})]),
     Obj([id |-> TNumber]),
     Obj([name |-> TString])}

SchemaTransforms == {"same", "extendOptional", "extendRequired", "omitName"}

IndexNames == {"byName", "byTags"}

IndexKeyPaths ==
    {StringPath(<<p>>) : p \in {"name", "tags", "flags"}}
        \cup {ArrayPath(<<<<"id">>, <<"name">>>>),
              ArrayPath(<<<<"id">>, <<"flags">>>>)}

MultiEntryOptions == {"true", "false", "omitted"}

UniqueOptions == {"omitted"}

OpsValueTypes == {MemberValue}

OpsPrimaryKeys == {PathUndefined, StringPath(<<"id">>)}

IndexCall(indexName, storeName, keyPath, multiEntry) ==
    [method |-> "createIndex", indexName |-> indexName,
     storeName |-> storeName, keyPath |-> keyPath, multiEntry |-> multiEntry,
     unique |-> "omitted"]

\* the callbacks of the earlier versions
BaseFns ==
    {<<CreateCall("users", MemberValue, StringPath(<<"id">>), "omitted")>>,
     <<CreateCall("users", MemberValue, StringPath(<<"id">>), "true"),
       IndexCall("byName", "users", StringPath(<<"name">>), "omitted"),
       IndexCall("byTags", "users", StringPath(<<"tags">>), "true")>>,
     <<CreateCall("users", MemberValue, StringPath(<<"id">>), "true"),
       IndexCall("byName", "users", StringPath(<<"name">>), "omitted"),
       CreateCall("events", MemberValue, PathUndefined, "omitted")>>}

\* the schemas S of the builders that version() constructs
BaseSchemas ==
    {RunFn(NewVersionBuilder(EmptySchema), fn).type.S : fn \in BaseFns}

InitOps ==
    /\ vb \in {NewVersionBuilder(S) : S \in BaseSchemas}
    /\ vbCall = NoCall
    /\ migrations = <<>>
    /\ mbS = EmptySchema
    /\ mbPrevVersion = Undefined
    /\ mbCall = NoCall
    /\ builders = <<>>
    /\ cmpA = Undefined
    /\ cmpB = Undefined
    /\ cmpOp = "none"
    /\ cmpRes = FALSE

\* the call of a method that returned r: a call that did not compile leaves
\* the builder expression as it was
Called(r, call) ==
    /\ vb' = IF r.type = CompileError THEN vb ELSE r
    /\ vbCall' = IF r.type = CompileError
                  THEN [method |-> call.method, returns |-> r.type]
                  ELSE call

DeleteObjectStore(name) ==
    /\ vb.type.kind = "VersionBuilder"
    /\ Len(vb.actions) < MaxOps
    /\ LET r == deleteObjectStore(vb, name)
       IN  Called(r, [method |-> "deleteObjectStore", name |-> name,
                      returns |-> r.type])
    /\ UNCHANGED <<mbVars, cmpVars>>

TransformRecords(name, NewValue) ==
    /\ vb.type.kind = "VersionBuilder"
    /\ Len(vb.actions) < MaxOps
    /\ LET r == transformRecords(vb, name, NewValue)
       IN  Called(r, [method |-> "transformRecords", name |-> name,
                      NewValue |-> NewValue,
                      InvalidIndex |->
                        IF name \in DOMAIN vb.type.S
                        THEN FindInvalidIndexKeyPath(NewValue,
                                                     vb.type.S[name].indexes)
                        ELSE {},
                      returns |-> r.type])
    /\ UNCHANGED <<mbVars, cmpVars>>

CreateIndex(indexName, storeName, keyPath, multiEntry, unique) ==
    /\ vb.type.kind = "VersionBuilder"
    /\ Len(vb.actions) < MaxOps
    /\ LET r == createIndex(vb, indexName, storeName, keyPath, multiEntry,
                            unique)
       IN  Called(r, [method |-> "createIndex", indexName |-> indexName,
                      storeName |-> storeName, keyPath |-> keyPath,
                      multiEntry |-> multiEntry, unique |-> unique,
                      returns |-> r.type])
    /\ UNCHANGED <<mbVars, cmpVars>>

DeleteIndex(indexName, storeName) ==
    /\ vb.type.kind = "VersionBuilder"
    /\ Len(vb.actions) < MaxOps
    /\ LET r == deleteIndex(vb, indexName, storeName)
       IN  Called(r, [method |-> "deleteIndex", indexName |-> indexName,
                      storeName |-> storeName, returns |-> r.type])
    /\ UNCHANGED <<mbVars, cmpVars>>

\* (records no action, so it is also called on a builder with MaxOps actions)
AlterObjectStore(storeName, transform) ==
    /\ vb.type.kind = "VersionBuilder"
    /\ Len(vb.actions) <= MaxOps
    /\ LET r == alterObjectStore(vb, storeName, transform)
       IN  Called(r, [method |-> "alterObjectStore", storeName |-> storeName,
                      transform |-> transform, returns |-> r.type])
    /\ UNCHANGED <<mbVars, cmpVars>>

NextOps ==
    \/ \E name \in StoreNames, T \in OpsValueTypes,
          primaryKey \in OpsPrimaryKeys, autoIncrement \in AutoIncrementOptions :
            CreateObjectStore(name, T, primaryKey, autoIncrement)
    \/ \E name \in StoreNames : DeleteObjectStore(name)
    \/ \E name \in StoreNames, NewValue \in NewValues :
            TransformRecords(name, NewValue)
    \/ \E indexName \in IndexNames, storeName \in StoreNames,
          keyPath \in IndexKeyPaths, multiEntry \in MultiEntryOptions,
          unique \in UniqueOptions :
            CreateIndex(indexName, storeName, keyPath, multiEntry, unique)
    \/ \E indexName \in IndexNames, storeName \in StoreNames :
            DeleteIndex(indexName, storeName)
    \/ \E storeName \in StoreNames, transform \in SchemaTransforms :
            AlterObjectStore(storeName, transform)

SpecOps == InitOps /\ [][NextOps]_vars

(***************************************************************************)
(* Spec: a chain of MigrationBuilder.version() calls, starting from        *)
(* createMigrations().                                                     *)
(***************************************************************************)
\* literals of the documentation samples and of more digits
WideVersions == {5, 9, 10, 99, 100, 20000}

\* exponents k of the literals 10^k, which print as 1e+k
ExponentVersions == {21}

VersionArgs ==
    {Lit(n) : n \in (-1..MaxVersion) \cup WideVersions}
        \cup {Exp10(k) : k \in ExponentVersions}
        \cup {BroadNumber}

\* the callbacks: v => v, and v => v.createObjectStore(...) of the samples
Fns ==
    {<<>>,
     <<CreateCall("users", UserValue, PathUndefined, "omitted")>>,
     <<CreateCall("events", EventValue, PathUndefined, "true")>>,
     <<CreateCall("users", UserValue, StringPath(<<"id">>), "true")>>,
     <<CreateCall("users", AccountValue, StringPath(<<"id">>), "true"),
       CreateCall("events", EventValue, StringPath(<<"name">>), "omitted")>>}

\* createMigrations(): new MigrationBuilder<{}>()
Init ==
    /\ migrations = <<>>
    /\ mbS = EmptySchema
    /\ mbPrevVersion = Undefined
    /\ mbCall = NoCall
    /\ builders = <<>>
    /\ vb = NewVersionBuilder(EmptySchema)
    /\ vbCall = NoCall
    /\ cmpA = Undefined
    /\ cmpB = Undefined
    /\ cmpOp = "none"
    /\ cmpRes = FALSE

\* version(version, fn).  The call compiles when the argument is assignable
\* to ValidateVersion<V, PrevVersion> and fn returns a VersionBuilder.
Version(V, fn) ==
    /\ Len(migrations) < MaxMigrations
    /\ LET param == ValidateVersion(V, mbPrevVersion)
           builder == RunFn(NewVersionBuilder(mbS), fn)
           accepted == param = V /\ builder.type.kind = "VersionBuilder"
       IN  /\ mbCall' = [method |-> "version", V |-> V,
                         PrevVersion |-> mbPrevVersion, param |-> param,
                         fnReturns |-> builder.type.kind,
                         accepted |-> accepted]
           /\ IF accepted
              THEN /\ migrations' = migrations
                        \o <<[version |-> V, actions |-> builder.actions]>>
                   /\ mbS' = builder.type.S
                   /\ mbPrevVersion' = V
              ELSE UNCHANGED <<migrations, mbS, mbPrevVersion>>
    /\ UNCHANGED <<builders, vbVars, cmpVars>>

Next == \E V \in VersionArgs, fn \in Fns : Version(V, fn)

Spec == Init /\ [][Next]_vars

(***************************************************************************)
(* SpecMB: MigrationBuilder objects.  Every builder constructed so far is  *)
(* kept, with the static type of the expression that made it, and each of  *)
(* them can be the receiver of the next version() call.                    *)
(***************************************************************************)
\* the most MigrationBuilder objects constructed
MaxBuilders == 3

\* new MigrationBuilder<S, PrevVersion>(): migrations = []
NewMigrationBuilder(S, PrevVersion) ==
    [migrations |-> <<>>, S |-> S, PrevVersion |-> PrevVersion]

\* variant: the entry is pushed onto the receiver, which is returned
version_InPlace(heap, this, V, builder) ==
    [heap |-> [heap EXCEPT ![this] =
                    [migrations |-> heap[this].migrations
                        \o <<[version |-> V, actions |-> builder.actions]>>,
                     S |-> builder.type.S, PrevVersion |-> V]],
     returns |-> this]

\* the body of version(): next is a new object, next.migrations gets
\* ...this.migrations and the new entry, and next is returned
version(heap, this, V, builder) ==
    LET next == NewMigrationBuilder(builder.type.S, V)
        pushed == [next EXCEPT !.migrations =
                        next.migrations \o heap[this].migrations
                            \o <<[version |-> V, actions |-> builder.actions]>>]
    IN  [heap |-> Append(heap, pushed), returns |-> Len(heap) + 1]

\* the version arguments of the documentation samples
BuilderVersionArgs == {Lit(n) : n \in 1..MaxVersion} \cup {BroadNumber}

\* const base = createMigrations()
InitMB ==
    /\ builders = <<NewMigrationBuilder(EmptySchema, Undefined)>>
    /\ mbCall = NoCall
    /\ migrations = <<>>
    /\ mbS = EmptySchema
    /\ mbPrevVersion = Undefined
    /\ vb = NewVersionBuilder(EmptySchema)
    /\ vbCall = NoCall
    /\ cmpA = Undefined
    /\ cmpB = Undefined
    /\ cmpOp = "none"
    /\ cmpRes = FALSE

\* builders[this].version(V, fn)
VersionOn(this, V, fn) ==
    /\ Len(builders) < MaxBuilders
    /\ Len(builders[this].migrations) < MaxMigrations
    /\ LET param == ValidateVersion(V, builders[this].PrevVersion)
           builder == RunFn(NewVersionBuilder(builders[this].S), fn)
           accepted == param = V /\ builder.type.kind = "VersionBuilder"
           result == version(builders, this, V, builder)
       IN  IF accepted
           THEN /\ builders' = result.heap
                /\ mbCall' = [method |-> "version", this |-> this, V |-> V,
                              fn |-> fn, accepted |-> TRUE,
                              returns |-> result.returns]
           ELSE /\ builders' = builders
                /\ mbCall' = [method |-> "version", this |-> this, V |-> V,
                              fn |-> fn, accepted |-> FALSE, returns |-> 0]
    /\ UNCHANGED <<migrations, mbS, mbPrevVersion, vbVars, cmpVars>>

NextMB ==
    \E this \in 1..Len(builders), V \in BuilderVersionArgs, fn \in Fns :
        VersionOn(this, V, fn)

SpecMB == InitMB /\ [][NextMB]_vars

(***************************************************************************)
(* SpecCmp: the comparison utility types applied to every pair of inputs.  *)
(***************************************************************************)
\* literals with several digits, as used by the type tests
WideInts == {99, 100, 999, 1000, 9999, 10000, 99999999, 100000000}

CmpInts == (-MaxInt..MaxInt) \cup WideInts \cup {-n : n \in WideInts}

CmpTypes == {Lit(n) : n \in CmpInts} \cup {NegInfLit, TypeofInfinity}

InitCmp ==
    /\ cmpA \in CmpTypes
    /\ cmpB \in CmpTypes
    /\ cmpOp = "none"
    /\ cmpRes = FALSE
    /\ migrations = <<>>
    /\ mbS = EmptySchema
    /\ mbPrevVersion = Undefined
    /\ mbCall = NoCall
    /\ builders = <<>>
    /\ vb = NewVersionBuilder(EmptySchema)
    /\ vbCall = NoCall

EvalIsGreaterThan ==
    /\ cmpOp' = "IsGreaterThan"
    /\ cmpRes' = IsGreaterThan(cmpA, cmpB)
    /\ UNCHANGED <<cmpA, cmpB, mbVars, vbVars>>

EvalLessThan ==
    /\ cmpOp' = "LessThan"
    /\ cmpRes' = LessThan(cmpA, cmpB)
    /\ UNCHANGED <<cmpA, cmpB, mbVars, vbVars>>

EvalGreaterThanOrEqual ==
    /\ cmpOp' = "GreaterThanOrEqual"
    /\ cmpRes' = GreaterThanOrEqual(cmpA, cmpB)
    /\ UNCHANGED <<cmpA, cmpB, mbVars, vbVars>>

EvalLessThanOrEqual ==
    /\ cmpOp' = "LessThanOrEqual"
    /\ cmpRes' = LessThanOrEqual(cmpA, cmpB)
    /\ UNCHANGED <<cmpA, cmpB, mbVars, vbVars>>

NextCmp ==
    \/ EvalIsGreaterThan
    \/ EvalLessThan
    \/ EvalGreaterThanOrEqual
    \/ EvalLessThanOrEqual

SpecCmp == InitCmp /\ [][NextCmp]_vars

(***************************************************************************)
(* Properties of MigrationBuilder.version() (Spec).                        *)
(***************************************************************************)
\* an integer literal: plain (lit) or printed in exponent form (exp)
IsIntegerLiteral(N) == N.kind \in {"lit", "exp"}

\* the order of the integers: every 10^k, k >= 21, exceeds every lit of the model
IntegerGreater(A, B) ==
    CASE A.kind = "lit" /\ B.kind = "lit" -> A.val > B.val
      [] A.kind = "exp" /\ B.kind = "lit" -> TRUE
      [] A.kind = "lit" /\ B.kind = "exp" -> FALSE
      [] OTHER -> A.val > B.val

IsVersionCall == mbCall.method = "version"

\* a version() call with integer literals as version and previous version
IsIntegerVersionCall ==
    /\ IsVersionCall
    /\ IsIntegerLiteral(mbCall.V)
    /\ IsIntegerLiteral(mbCall.PrevVersion)

\* C1: with integer literal versions, a version() call is accepted only if
\* its version is strictly greater than the preceding one, hence the
\* versions in the migrations list are strictly increasing.
C1_VersionsStrictlyIncreasing ==
    /\ (IsIntegerVersionCall /\ mbCall.accepted)
            => IntegerGreater(mbCall.V, mbCall.PrevVersion)
    /\ \A i \in 1..(Len(migrations) - 1) :
            IntegerGreater(migrations[i + 1].version, migrations[i].version)

\* C1, C3 and C5 restricted to literals that print in plain decimal notation:
\* there version() accepts exactly the strictly greater versions.
PlainDecimalVersionsOrdered ==
    (/\ IsVersionCall
     /\ mbCall.V.kind = "lit"
     /\ mbCall.PrevVersion.kind = "lit"
     /\ mbCall.fnReturns = "VersionBuilder")
        => (mbCall.accepted = (mbCall.V.val > mbCall.PrevVersion.val))

\* C2: every version number that version() accepted, the first of a chain
\* included, is a positive integer.
C2_AcceptedVersionsPositive ==
    \A i \in 1..Len(migrations) :
        \/ migrations[i].version.kind = "exp"
        \/ migrations[i].version.kind = "lit" /\ migrations[i].version.val >= 1

\* C3: version(v) after a previous version that is the same or a larger
\* integer literal is rejected: the parameter type is the string literal
\* 'integer greater than <previous version>' and nothing is appended.
C3_RepeatedOrLowerRejected ==
    (IsIntegerVersionCall /\ ~IntegerGreater(mbCall.V, mbCall.PrevVersion))
        => /\ mbCall.param = StringLiteral(<<"integer greater than ">>
                                \o TemplateOfNumber(mbCall.PrevVersion))
           /\ ~mbCall.accepted
           /\ mbPrevVersion = mbCall.PrevVersion

\* C4: a version argument of the broad type number is rejected whatever the
\* previous version is, the first version of a chain included: the parameter
\* type is the 'specific numeric literal' message and never the number.
C4_BroadNumberRejected ==
    (IsVersionCall /\ mbCall.V = BroadNumber)
        => /\ mbCall.param = BroadVersionMessage
           /\ mbCall.param # mbCall.V
           /\ ~mbCall.accepted
           /\ mbPrevVersion = mbCall.PrevVersion
           /\ \A i \in 1..Len(migrations) : migrations[i].version # BroadNumber

\* C4 witness: the broad number was passed as the first version of a chain
C4_Witness ==
    /\ IsVersionCall
    /\ mbCall.V = BroadNumber
    /\ mbCall.PrevVersion = Undefined
    /\ mbCall.fnReturns = "VersionBuilder"
    /\ ~mbCall.accepted

\* C5: version(V) after a previous version P is accepted for every pair of
\* integer literals with V > P, whatever the gap.
C5_EveryGreaterVersionAccepted ==
    (/\ IsIntegerVersionCall
     /\ IntegerGreater(mbCall.V, mbCall.PrevVersion)
     /\ mbCall.fnReturns = "VersionBuilder")
        => /\ mbCall.param = mbCall.V
           /\ mbCall.accepted

(***************************************************************************)
(* Properties of the MigrationBuilder objects (SpecMB).                    *)
(***************************************************************************)
\* a step in which a version() call was accepted
AcceptedVersionStep == mbCall'.method = "version" /\ mbCall'.accepted

\* C13: an accepted builder.version(v, fn) returns a new MigrationBuilder
\* whose migrations list is the receiver's list, in the same order, followed
\* by exactly one entry {version: v, actions: the actions recorded by fn};
\* the receiver and every other builder constructed before keep their lists.
C13_VersionAppendsToCopy ==
    [][AcceptedVersionStep
        => /\ mbCall'.returns \notin 1..Len(builders)
           /\ mbCall'.returns \in 1..Len(builders')
           /\ builders'[mbCall'.returns].migrations
                = builders[mbCall'.this].migrations
                    \o <<[version |-> mbCall'.V,
                          actions |-> RunFn(NewVersionBuilder(
                                                builders[mbCall'.this].S),
                                            mbCall'.fn).actions]>>
           /\ \A i \in 1..Len(builders) :
                builders'[i].migrations = builders[i].migrations]_vars

\* C13 witness: two chains were branched from the builder of
\* createMigrations(), the second after the first, and their lists differ
C13_Witness ==
    /\ mbCall.method = "version"
    /\ mbCall.accepted
    /\ mbCall.this = 1
    /\ mbCall.returns = 3
    /\ Len(builders[2].migrations) = 1
    /\ Len(builders[3].migrations) = 1
    /\ builders[3].migrations[1].actions # <<>>
    /\ builders[2].migrations # builders[3].migrations
    /\ builders[1].migrations = <<>>

(***************************************************************************)
(* Properties of VersionBuilder.createObjectStore (SpecVB).                *)
(***************************************************************************)
\* createObjectStore was called with autoIncrement: true and a string
\* primaryKey, and the call compiled
IsAutoIncrementStringKeyCall ==
    /\ vbCall.method = "createObjectStore"
    /\ vbCall.returns # CompileError
    /\ vbCall.autoIncrement = "true"
    /\ vbCall.primaryKey.kind = "string"

\* the type the primary key path of the last call points to
PointedType == ResolveSingleKeyPath(vbCall.value, vbCall.primaryKey.segs)

\* number, or a numeric literal type
IsNumberType(R) ==
    R.kind = "prim" /\ R.alts # {} /\ R.alts \subseteq {"number", "numlit"}

\* a union that has number as a member
IncludesNumber(R) == R.kind = "prim" /\ "number" \in R.alts

\* a type all of whose values are valid IndexedDB keys
IsKeyType(R) ==
    R.kind = "prim" /\ R.alts # {}
        /\ R.alts \subseteq (IDBValidKeyAtoms \cup {"numlit"})

KeyPathNamesProperties ==
    \A i \in 1..Len(vbCall.primaryKey.segs) : vbCall.primaryKey.segs[i] # ""

IsCompositeKeyCall ==
    /\ vbCall.method = "createObjectStore"
    /\ vbCall.returns # CompileError
    /\ vbCall.primaryKey.kind = "array"

\* every element of the composite key of the last call points to a key type
CompositeKeyPointsToKeys ==
    \A i \in 1..Len(vbCall.primaryKey.elems) :
        IsKeyType(ResolveSingleKeyPath(vbCall.value, vbCall.primaryKey.elems[i]))

\* C11: createObjectStore with autoIncrement: true and a composite primaryKey
\* is always rejected (the result is an error type, no VersionBuilder), also
\* when every element points to a number; with autoIncrement false or omitted
\* the same composite key is accepted and becomes the store's primaryKeyPath.
C11_CompositeKeyNeverAutoIncrement ==
    IsCompositeKeyCall
        => /\ vbCall.autoIncrement = "true"
                => /\ vbCall.returns.kind = "MigrationError"
                   /\ vb.type.kind = "MigrationError"
                   /\ CompositeKeyPointsToKeys
                        => vbCall.returns.__error = "InvalidAutoIncrementKey"
           /\ (vbCall.autoIncrement # "true" /\ CompositeKeyPointsToKeys)
                => /\ vbCall.returns.kind = "VersionBuilder"
                   /\ vb.type.S[vbCall.name].primaryKeyPath = vbCall.primaryKey
                   /\ vb.type.S[vbCall.name].autoIncrement = FALSE

\* C11 witness: the sample of the documentation, two number fields as
\* composite key with autoIncrement, returned InvalidAutoIncrementKey
C11_Witness ==
    /\ IsCompositeKeyCall
    /\ vbCall.autoIncrement = "true"
    /\ vbCall.value = OrderValue
    /\ vbCall.primaryKey = ArrayPath(<<<<"customerId">>, <<"orderId">>>>)
    /\ vbCall.returns = InvalidAutoIncrementKey(
            {<<"autoIncrement requires keyPath to resolve to number, but '",
               "[", "customerId", ", ", "orderId", "]",
               "' resolves to ", "Array">>})

\* createObjectStore was called and returned a VersionBuilder
IsAcceptedCreate ==
    /\ vbCall.method = "createObjectStore"
    /\ vbCall.returns.kind = "VersionBuilder"

RECURSIVE TypeAtPath(_, _)
\* the type found at a string key path: each segment names a property, the
\* empty path is the value itself
TypeAtPath(T, segs) ==
    IF segs = <<"">> THEN T
    ELSE IF Head(segs) \notin KeyOf(T) THEN Never
    ELSE IF Len(segs) = 1 THEN IndexType(T, Head(segs))
    ELSE TypeAtPath(IndexType(T, Head(segs)), Tail(segs))

\* the key type the claim gives the store of the last call
ExpectedKeyType ==
    CASE vbCall.primaryKey.kind = "undefined" ->
            IF vbCall.autoIncrement = "true" THEN TNumber
            ELSE Prim(IDBValidKeyAtoms)
      [] vbCall.primaryKey.kind = "string" ->
            TypeAtPath(vbCall.value, vbCall.primaryKey.segs)
      [] OTHER ->
            [kind |-> "tuple",
             elems |-> [i \in 1..Len(vbCall.primaryKey.elems) |->
                            TypeAtPath(vbCall.value, vbCall.primaryKey.elems[i])]]

\* the key type of the store of the last call in the derived IDB schema
DerivedKeyType == SchemaToIDBSchema(vb.type.S)[vbCall.name].key

\* C12: a store with autoIncrement: true and no primaryKey is accepted and
\* its key type in the derived IDB schema is number; with no primaryKey and
\* without autoIncrement the key type is IDBValidKey; with a primaryKey it is
\* the type found at that key path.
C12_StoreKeyType ==
    /\ (/\ vbCall.method = "createObjectStore"
        /\ vbCall.returns # CompileError
        /\ vbCall.primaryKey.kind = "undefined")
            => vbCall.returns.kind = "VersionBuilder"
    /\ IsAcceptedCreate => DerivedKeyType = ExpectedKeyType

\* C12 restricted to key paths without an empty segment: there the derived
\* key type is the type found at the key path.
NamedPathStoreKeyType ==
    (/\ IsAcceptedCreate
     /\ vbCall.primaryKey.kind = "string"
            => \A i \in 1..Len(vbCall.primaryKey.segs) :
                    vbCall.primaryKey.segs[i] # "")
        => DerivedKeyType = ExpectedKeyType

RECURSIVE SegmentsPointToKey(_, _)
\* every segment names a property of the (nested) value type, and the type
\* reached at the end is a key type
SegmentsPointToKey(T, segs) ==
    /\ Head(segs) \in KeyOf(T)
    /\ IF Len(segs) = 1 THEN IsKeyType(IndexType(T, Head(segs)))
       ELSE SegmentsPointToKey(IndexType(T, Head(segs)), Tail(segs))

\* the string key paths the claim calls valid
IsValidStringKeyPath(T, Path) ==
    IF Path.segs = <<"">> THEN IsKeyType(T)
    ELSE SegmentsPointToKey(T, Path.segs)

\* createObjectStore was called with a string or no primaryKey, and the call
\* compiled
IsStringOrNoKeyCall ==
    /\ vbCall.method = "createObjectStore"
    /\ vbCall.returns # CompileError
    /\ vbCall.primaryKey.kind \in {"string", "undefined"}

\* the result of the last call is InvalidKeyPath
ReturnsInvalidKeyPath ==
    /\ vbCall.returns.kind = "MigrationError"
    /\ vbCall.returns.__error = "InvalidKeyPath"

\* C17: ValidateKeyPath returns a string key path exactly when every
\* dot-separated segment names a property of the (nested) value type and
\* the type at the end is a valid IDB key, and never otherwise; the empty
\* string is valid exactly when the value type itself is a valid IDB key;
\* undefined is passed through; createObjectStore yields InvalidKeyPath
\* exactly when the validation returns never.
C17_KeyPathValidated ==
    IsStringOrNoKeyCall
        => LET validated == ValidateKeyPath(vbCall.value, vbCall.primaryKey)
           IN  /\ vbCall.primaryKey.kind = "undefined"
                    => validated = PathUndefined
               /\ vbCall.primaryKey.kind = "string"
                    => validated
                        = IF IsValidStringKeyPath(vbCall.value, vbCall.primaryKey)
                          THEN vbCall.primaryKey ELSE NeverPath
               /\ ReturnsInvalidKeyPath <=> validated = NeverPath

\* C17 restricted to key paths without an empty segment: there
\* ValidateKeyPath returns exactly the valid paths.
NamedKeyPathValidated ==
    (/\ IsStringOrNoKeyCall
     /\ vbCall.primaryKey.kind = "string"
     /\ \A i \in 1..Len(vbCall.primaryKey.segs) : vbCall.primaryKey.segs[i] # "")
        => /\ ValidateKeyPath(vbCall.value, vbCall.primaryKey)
                = IF IsValidStringKeyPath(vbCall.value, vbCall.primaryKey)
                  THEN vbCall.primaryKey ELSE NeverPath
           /\ ReturnsInvalidKeyPath
                <=> ~IsValidStringKeyPath(vbCall.value, vbCall.primaryKey)

(***************************************************************************)
(* Properties of the VersionBuilder methods (SpecOps).  In a step, vb is   *)
(* the receiver of the call and vb' the expression after it.               *)
(***************************************************************************)
\* a step in which alterObjectStore was called, and the call compiled
AlterStep ==
    /\ vbCall'.method = "alterObjectStore"
    /\ vbCall'.returns # CompileError

\* the type of the new schema of the alteration of this step
AlteredValue ==
    ZInfer(ApplySchemaTransform(vbCall'.transform,
                                vb.type.S[vbCall'.storeName].schema))

\* C14: alterObjectStore(store, f) is accepted only if every value of the
\* store's current value type (the result type of an earlier
\* transformRecords included) satisfies the new schema's type; otherwise the
\* result is InvalidAlteration and not a VersionBuilder.
C14_AlterationBackwardsCompatible ==
    [][AlterStep
        => LET current == vb.type.S[vbCall'.storeName].value
           IN  /\ vbCall'.returns.kind = "VersionBuilder"
                    => Extends(current, AlteredValue)
               /\ ~Extends(current, AlteredValue)
                    => /\ vbCall'.returns.kind = "MigrationError"
                       /\ vbCall'.returns.__error = "InvalidAlteration"
                       /\ vb'.type = vbCall'.returns]_vars

\* C14 restricted to stores whose value type is still the type of their
\* schema (no transformRecords before): the alteration is accepted exactly
\* when it is backwards-compatible.
UntransformedAlterationCompatible ==
    [][(/\ AlterStep
        /\ vb.type.S[vbCall'.storeName].value
                = ZInfer(vb.type.S[vbCall'.storeName].schema))
        => LET current == vb.type.S[vbCall'.storeName].value
           IN  IF Extends(current, AlteredValue)
               THEN vbCall'.returns.kind = "VersionBuilder"
               ELSE /\ vbCall'.returns.kind = "MigrationError"
                    /\ vbCall'.returns.__error = "InvalidAlteration"]_vars

\* the actions that the methods of VersionBuilder record
RecordedActions ==
    {"create-object-store", "delete-object-store", "transform-object-store",
     "create-index", "delete-index"}

\* C15: alterObjectStore records no runtime action and returns the same
\* builder: the actions list is the same before and after the call, whether
\* the alteration is accepted or not, so no action of a version comes from
\* an alterObjectStore call.
C15_AlterationRecordsNoAction ==
    [][AlterStep
        => /\ vb'.actions = vb.actions
           /\ \A i \in 1..Len(vb'.actions) :
                vb'.actions[i].action \in RecordedActions]_vars

\* C15 witness: an accepted alteration followed a transformRecords call,
\* whose action is still the only one of the builder
C15_Witness ==
    /\ vbCall.method = "alterObjectStore"
    /\ vbCall.returns.kind = "VersionBuilder"
    /\ vbCall.transform = "extendOptional"
    /\ Len(vb.actions) = 1
    /\ vb.actions[1].action = "transform-object-store"
    /\ "email" \in DOMAIN vb.type.S[vbCall.storeName].value.props

\* a step in which createIndex was called, and the call compiled
CreateIndexStep ==
    /\ vbCall'.method = "createIndex"
    /\ vbCall'.returns # CompileError

\* an array type
IsArrayType(R) == R.kind = "prim" /\ R.alts # {} /\ R.alts \subseteq ArrayAtoms

\* an array type whose elements are valid IndexedDB keys
IsKeyArrayType(R) ==
    /\ IsArrayType(R)
    /\ \A a \in R.alts : IsKeyType(Prim({ElementAtom(a)}))

\* every segment of the key path names a property of the value type, and
\* the type there is a key type; for a composite key path every element
PointsToKeys(T, Path) ==
    CASE Path.kind = "string" -> IsKeyType(TypeAtPath(T, Path.segs))
      [] Path.kind = "array" ->
            \A i \in 1..Len(Path.elems) :
                IsKeyType(TypeAtPath(T, Path.elems[i]))
      [] OTHER -> TRUE

\* the result of the call of this step is the error type of that name
Yields(error) ==
    /\ vbCall'.returns.kind = "MigrationError"
    /\ vbCall'.returns.__error = error
    /\ vb'.type = vbCall'.returns

\* C16: createIndex with multiEntry: true is accepted only if the key path
\* is a single string path that points to an array whose elements are valid
\* IDB keys; with a path to a non-array, to an array of non-key elements, or
\* with a composite key path the result is InvalidMultiEntry; with
\* multiEntry false or omitted the result is never InvalidMultiEntry.
C16_MultiEntryChecked ==
    [][CreateIndexStep
        => LET keyPath == vbCall'.keyPath
               value == vb.type.S[vbCall'.storeName].value
               pointed == TypeAtPath(value, keyPath.segs)
           IN  IF vbCall'.multiEntry = "true"
               THEN /\ vbCall'.returns.kind = "VersionBuilder"
                        => keyPath.kind = "string" /\ IsKeyArrayType(pointed)
                    /\ (keyPath.kind = "string" /\ ~IsArrayType(pointed))
                        => Yields("InvalidMultiEntry")
                    /\ (/\ keyPath.kind = "string"
                        /\ IsArrayType(pointed)
                        /\ ~IsKeyArrayType(pointed))
                        => Yields("InvalidMultiEntry")
                    /\ (keyPath.kind = "array" /\ PointsToKeys(value, keyPath))
                        => Yields("InvalidMultiEntry")
               ELSE ~Yields("InvalidMultiEntry")]_vars

\* C16 with the key path validation first: a key path that is not valid gives
\* InvalidKeyPath whatever multiEntry is (an array of non-key elements is
\* no valid key); a valid one gives, with multiEntry: true, a VersionBuilder
\* for a string path to an array of keys and InvalidMultiEntry otherwise,
\* and without multiEntry a VersionBuilder.
MultiEntryCheckedAfterKeyPath ==
    [][CreateIndexStep
        => LET keyPath == vbCall'.keyPath
               value == vb.type.S[vbCall'.storeName].value
               accepted ==
                    /\ vbCall'.returns.kind = "VersionBuilder"
                    /\ vb'.type.S[vbCall'.storeName].indexes[vbCall'.indexName]
                        = IndexInfo(keyPath, vbCall'.multiEntry = "true", FALSE)
           IN  IF ~PointsToKeys(value, keyPath) THEN Yields("InvalidKeyPath")
               ELSE IF vbCall'.multiEntry # "true" THEN accepted
               ELSE IF keyPath.kind = "array" THEN Yields("InvalidMultiEntry")
               ELSE IF IsKeyArrayType(TypeAtPath(value, keyPath.segs))
                    THEN accepted
                    ELSE Yields("InvalidMultiEntry")]_vars

\* a step in which transformRecords was called, and the call compiled
TransformStep ==
    /\ vbCall'.method = "transformRecords"
    /\ vbCall'.returns # CompileError

\* the indexes of the store of this step whose key path does not point to
\* keys in the new value type
BrokenIndexes ==
    {K \in DOMAIN vb.type.S[vbCall'.name].indexes :
        ~PointsToKeys(vbCall'.NewValue, vb.type.S[vbCall'.name].indexes[K].keyPath)}

HasAutoIncrementKeyPath ==
    /\ vb.type.S[vbCall'.name].autoIncrement
    /\ vb.type.S[vbCall'.name].primaryKeyPath.kind = "string"

\* the type the primary key path of the store points to in the new value
NewKeyType ==
    TypeAtPath(vbCall'.NewValue, vb.type.S[vbCall'.name].primaryKeyPath.segs)

\* the call of this step returned a VersionBuilder in which the store has
\* the new value type
TransformAccepted ==
    /\ vbCall'.returns.kind = "VersionBuilder"
    /\ vb'.type = vbCall'.returns
    /\ vb'.type.S[vbCall'.name].value = vbCall'.NewValue

StoreKeyPathsValid(Info) ==
    /\ PointsToKeys(Info.value, Info.primaryKeyPath)
    /\ \A i \in DOMAIN Info.indexes :
            PointsToKeys(Info.value, Info.indexes[i].keyPath)

\* every store of the schema the builder tracks has valid key paths
KeyPathsValid(type) ==
    type.kind = "VersionBuilder"
        => \A n \in DOMAIN type.S : StoreKeyPathsValid(type.S[n])

\* C20: in every schema reached through accepted VersionBuilder operations,
\* each store's primary key path and the key path of each of its indexes is
\* a valid key path of the store's current value type.
C20_KeyPathsStayValid ==
    KeyPathsValid(vb.type)

\* every operation other than alterObjectStore keeps the key paths valid
KeyPathsValidWithoutAlteration ==
    [][(/\ KeyPathsValid(vb.type)
        /\ vbCall' # vbCall
        /\ vbCall'.method # "alterObjectStore")
        => KeyPathsValid(vb'.type)]_vars

\* an accepted alterObjectStore left a store with an index whose key path
\* is not a property of the altered value type
AlterationBreaksIndex ==
    /\ vbCall.method = "alterObjectStore"
    /\ vb.type.kind = "VersionBuilder"
    /\ vb.type = vbCall.returns
    /\ ~KeyPathsValid(vb.type)

\* C21: an accepted transformRecords changes only the value type of the
\* named store: the store's indexes, Zod schema, primary key path and
\* autoIncrement flag are preserved, the schema has the same stores, and
\* every other store is unchanged.
C21_TransformChangesOnlyValue ==
    [][(TransformStep /\ vbCall'.returns.kind = "VersionBuilder")
        => /\ vb'.type = vbCall'.returns
           /\ DOMAIN vb'.type.S = DOMAIN vb.type.S
           /\ vb'.type.S[vbCall'.name]
                = [vb.type.S[vbCall'.name] EXCEPT !.value = vbCall'.NewValue]
           /\ \A n \in (DOMAIN vb.type.S) \ {vbCall'.name} :
                    vb'.type.S[n] = vb.type.S[n]]_vars

\* C21 witness: a transform of 'users' was accepted in a schema that has the
\* store 'events' as well; 'users' has the new value type, which is not the
\* type of its Zod schema any more, and still has an index
C21_Witness ==
    /\ vbCall.method = "transformRecords"
    /\ vbCall.returns # CompileError
    /\ vbCall.returns.kind = "VersionBuilder"
    /\ vb.type = vbCall.returns
    /\ vbCall.name = "users"
    /\ DOMAIN vb.type.S = {"users", "events"}
    /\ vb.type.S["users"].value = vbCall.NewValue
    /\ vb.type.S["users"].value # ZInfer(vb.type.S["users"].schema)
    /\ DOMAIN vb.type.S["users"].indexes = {"byName"}
    /\ vb.type.S["events"].value = MemberValue

\* a step in which createObjectStore was called
CreateStoreStep ==
    /\ vbCall' # vbCall
    /\ vbCall'.method = "createObjectStore"

\* a step in which deleteObjectStore was called, and the call compiled
DeleteStoreStep ==
    /\ vbCall' # vbCall
    /\ vbCall'.method = "deleteObjectStore"
    /\ vbCall'.returns # CompileError

\* the call before this step was the accepted deleteObjectStore of the store
\* that this step creates
RecreatesDeletedStore ==
    /\ vbCall.method = "deleteObjectStore"
    /\ vbCall.returns # CompileError
    /\ vbCall.name = vbCall'.name

\* C22: store names behave as a set.  createObjectStore is rejected when
\* the name is already a store of the schema; deleteObjectStore is accepted
\* only for a name that is a store of the schema, and removes exactly that
\* store and leaves all others unchanged; a store re-created after its
\* deletion has no indexes and has the key path and the autoIncrement flag
\* given to the new createObjectStore.
C22_StoreNamesAreASet ==
    [][/\ (CreateStoreStep /\ vbCall'.name \in DOMAIN vb.type.S)
            => /\ vbCall'.returns = CompileError
               /\ vb' = vb
       /\ DeleteStoreStep
            => /\ vbCall'.name \in DOMAIN vb.type.S
               /\ vb'.type = vbCall'.returns
               /\ vb'.type.kind = "VersionBuilder"
               /\ DOMAIN vb'.type.S = (DOMAIN vb.type.S) \ {vbCall'.name}
               /\ \A n \in DOMAIN vb'.type.S : vb'.type.S[n] = vb.type.S[n]
       /\ (/\ CreateStoreStep
           /\ RecreatesDeletedStore
           /\ vbCall'.returns.kind = "VersionBuilder")
            => /\ vb'.type = vbCall'.returns
               /\ DOMAIN vb'.type.S = (DOMAIN vb.type.S) \cup {vbCall'.name}
               /\ vb'.type.S[vbCall'.name].indexes = NoIndexes
               /\ vb'.type.S[vbCall'.name].primaryKeyPath = vbCall'.primaryKey
               /\ vb'.type.S[vbCall'.name].autoIncrement
                    = (vbCall'.autoIncrement = "true")
               /\ vb'.type.S[vbCall'.name].value = vbCall'.value
               /\ \A n \in DOMAIN vb.type.S : vb'.type.S[n] = vb.type.S[n]]_vars

\* C22 witness: the store 'users', which had the key path 'id', autoIncrement
\* and the index 'byName', was deleted and created again without a key path;
\* it has no index and no autoIncrement, and 'events' is still there
C22_Witness ==
    /\ vbCall.method = "createObjectStore"
    /\ vbCall.returns # CompileError
    /\ vb.type = vbCall.returns
    /\ vb.type.kind = "VersionBuilder"
    /\ Len(vb.actions) = 2
    /\ vb.actions[1] = [action |-> "delete-object-store", storeName |-> "users"]
    /\ vb.actions[2].action = "create-object-store"
    /\ vb.actions[2].storeName = "users"
    /\ DOMAIN vb.type.S = {"users", "events"}
    /\ vb.type.S["users"].indexes = NoIndexes
    /\ vb.type.S["users"].primaryKeyPath = PathUndefined
    /\ ~vb.type.S["users"].autoIncrement
    /\ vb.type.S["events"].value = MemberValue

\* a createObjectStore with the name of a store of the schema was rejected
DuplicateStoreRejected ==
    /\ vbCall.method = "createObjectStore"
    /\ vbCall.returns = CompileError
    /\ vbCall.name \in DOMAIN vb.type.S

(***************************************************************************)
(* Properties of the comparison utility types (SpecCmp).                   *)
(***************************************************************************)
BothIntegers == cmpA.kind = "lit" /\ cmpB.kind = "lit"

\* C6: for all integers A and B printed in plain decimal notation,
\* IsGreaterThan<A, B> is true exactly when A > B and false otherwise
\* (so IsGreaterThan<A, A> is false).
C6_IsGreaterThanIsIntegerOrder ==
    (cmpOp = "IsGreaterThan" /\ BothIntegers)
        => (cmpRes = (cmpA.val > cmpB.val))

\* C6 witness: two negative integers of different digit counts were compared
C6_Witness ==
    /\ cmpOp = "IsGreaterThan"
    /\ cmpA = Lit(-1)
    /\ cmpB = Lit(-100)
    /\ cmpRes = TRUE

\* the infinities as the type tests write them
PosInf == TypeofInfinity

NegInf == NegInfLit

\* C7: IsGreaterThan orders the infinities correctly against every integer
\* and against each other: +Infinity is greater than everything but itself,
\* nothing is greater than +Infinity, everything but -Infinity is greater
\* than -Infinity, and -Infinity is greater than nothing.
C7_InfinitiesOrdered ==
    (/\ cmpOp = "IsGreaterThan"
     /\ cmpA.kind = "lit" \/ cmpA \in {PosInf, NegInf}
     /\ cmpB.kind = "lit" \/ cmpB \in {PosInf, NegInf})
        => /\ (cmpA = PosInf /\ cmpB # PosInf) => cmpRes = TRUE
           /\ (cmpB = PosInf) => cmpRes = FALSE
           /\ (cmpB = NegInf /\ cmpA # NegInf) => cmpRes = TRUE
           /\ (cmpA = NegInf) => cmpRes = FALSE

====
